---------------------------- MODULE Spec2Model ----------------------------
(***************************************************************************)
(* Model of the naive polynomial ring (src/polynomials/naive.py) and the   *)
(* naive quotient ring (src/pyschoof/rings/quotients/naive.py).            *)
(*                                                                         *)
(* A polynomial is modelled by its private coefficient list (ascending     *)
(* order, index 1 = constant term).  The coefficient ring and the source   *)
(* ring of the quotient ring are the integers, whose +, -, * and == are    *)
(* TLA+'s own.  A residue class is modelled by its private remainder.      *)
(***************************************************************************)
EXTENDS Integers, Sequences, FiniteSets, TLC

\* ------------------------------------------------------------------ bounds
\* A session keeps a polynomial while its coefficients lie in -MaxAbs..MaxAbs.
MaxAbs == 2
\* Longest coefficient list handed to PolynomialRing.__call__.
MaxLen == 3
\* The quotient rings are Z/mZ for m in 1..MaxModulus.
MaxModulus == 5
\* Representatives handed to QuotientRing.__init__ lie in -MaxRep..MaxRep.
MaxRep == 5
\* Zero coefficients appended to a coefficient list: up to MaxPad.
MaxPad == 2

\* The raw coefficients handed to PolynomialRing.__call__: a negative one,
\* zero and a positive one (the documented examples add larger ones).
Coefs == { 0 - 1, 0, 1 }

\* All coefficient lists of length lo..hi over Coefs.
ListsOfLen(lo, hi) == UNION { [1..n -> Coefs] : n \in lo..hi }

\* --------------------------------------------------------- polynomials
\* self._coefficient_ring.zero() for the integers
Zero == 0

\* Faulty variant: an `if` where the code has `while`, one coefficient popped at most.
remove_leading_zeros_once(zero, cs) ==
    IF Len(cs) > 1 /\ cs[Len(cs)] = zero
    THEN SubSeq(cs, 1, Len(cs) - 1)
    ELSE cs

\* ListPolynomial.__remove_leading_zeros: pop the last coefficient while
\* more than one is left and the last one equals the zero coefficient.
RECURSIVE remove_leading_zeros(_, _)
remove_leading_zeros(zero, cs) ==
    IF Len(cs) > 1 /\ cs[Len(cs)] = zero
    THEN remove_leading_zeros(zero, SubSeq(cs, 1, Len(cs) - 1))
    ELSE cs

\* Faulty variant: the list is stored and never stripped.
ListPolynomial_unstripped(zero, coefficient_list) == coefficient_list

\* ListPolynomial.__init__: store the list, then strip it.
ListPolynomial(zero, coefficient_list) ==
    remove_leading_zeros(zero, coefficient_list)

\* PolynomialRing.__call__: coerce every coefficient into the coefficient
\* ring (the integers: the value itself) and build the polynomial.  No
\* check of the arity is made: the empty list is passed on as it is.
PolynomialRing_call(coefficient_list) ==
    ListPolynomial(Zero, [ i \in 1..Len(coefficient_list) |-> coefficient_list[i] ])

\* ListPolynomial.degree
degree(p) == Len(p) - 1

\* ListPolynomial.__eq__
poly_eq(p, q) ==
    IF degree(p) # degree(q)
    THEN FALSE
    ELSE \A i \in 1..Len(p) : p[i] = q[i]

Max(m, n) == IF m >= n THEN m ELSE n

\* [padding_element] * n
Repeat(x, n) == [ i \in 1..n |-> x ]

\* Faulty variant: a plain zip, which stops at the end of the shorter list.
pad_and_zip_unpadded(list1, list2, padding_element) ==
    LET min_length == IF Len(list1) <= Len(list2) THEN Len(list1) ELSE Len(list2)
    IN  [ i \in 1..min_length |-> << list1[i], list2[i] >> ]

\* ListPolynomial.__pad_and_zip: both lists padded to the longer length,
\* zipped into pairs.
pad_and_zip(list1, list2, padding_element) ==
    LET max_length == Max(Len(list1), Len(list2))
        padded_list1 == list1 \o Repeat(padding_element, max_length - Len(list1))
        padded_list2 == list2 \o Repeat(padding_element, max_length - Len(list2))
    IN  [ i \in 1..max_length |-> << padded_list1[i], padded_list2[i] >> ]

\* The list __add__ hands to the constructor.
add_sums(p, q) ==
    LET coefficient_pairs == pad_and_zip(p, q, Zero)
    IN  [ i \in 1..Len(coefficient_pairs) |->
            coefficient_pairs[i][1] + coefficient_pairs[i][2] ]

\* ListPolynomial.__add__
poly_add(p, q) == ListPolynomial(Zero, add_sums(p, q))

\* The list __neg__ hands to the constructor.
neg_list(p) == [ i \in 1..Len(p) |-> 0 - p[i] ]

\* ListPolynomial.__neg__
poly_neg(p) == ListPolynomial(Zero, neg_list(p))

\* Faulty variant: result[i + j] = x * y where the code has +=.
RECURSIVE mul_loop_overwrite(_, _, _, _, _)
mul_loop_overwrite(result, p, q, i, j) ==
    IF i >= Len(p) THEN result
    ELSE IF j >= Len(q) THEN mul_loop_overwrite(result, p, q, i + 1, 0)
    ELSE mul_loop_overwrite([ result EXCEPT ![i + j + 1] = p[i + 1] * q[j + 1] ],
                            p, q, i, j + 1)

\* The double loop of __mul__ from position (i, j) on (0-based, as
\* enumerate counts): result[i + j] += x * y, row by row.
RECURSIVE mul_loop(_, _, _, _, _)
mul_loop(result, p, q, i, j) ==
    IF i >= Len(p) THEN result
    ELSE IF j >= Len(q) THEN mul_loop(result, p, q, i + 1, 0)
    ELSE mul_loop([ result EXCEPT ![i + j + 1] = @ + p[i + 1] * q[j + 1] ],
                  p, q, i, j + 1)

\* The list __mul__ hands to the constructor: degree + degree + 2 zeros,
\* then the accumulation.
mul_result(p, q) ==
    mul_loop(Repeat(Zero, Max(0, degree(p) + degree(q) + 2)), p, q, 0, 0)

\* ListPolynomial.__mul__
poly_mul(p, q) == ListPolynomial(Zero, mul_result(p, q))

\* ----------------------------------------------------- quotient rings
\* An operand of a constructor or an operator: an element of the generated
\* class itself ("class", val its remainder), an element of the source ring
\* ("ring"), a value the source ring's constructor accepts ("raw"), or a
\* value it rejects ("foreign").
Value(t, v) == [ type |-> t, val |-> v ]

Raise(e) == [ tag |-> "raise", val |-> e ]
NotImplemented == [ tag |-> "NotImplemented", val |-> "NotImplemented" ]
Ok(v) == [ tag |-> "ok", val |-> v ]
None == [ tag |-> "none", val |-> "None" ]

\* x % m of the source ring (the integers): the remainder of the floored
\* division, 0 <= r < m for a positive modulus m.
Mod(x, m) == x % m

\* m.__class__(representative): the source ring's constructor.
RingCoerce(representative) ==
    IF representative.type \in { "ring", "raw" }
    THEN Ok(representative.val)
    ELSE Raise("TypeError")

\* self._ring.one(), self._ring.zero()
One == 1

\* Faulty variant: a source-ring element is stored as it is, not reduced.
QR_init_unreduced(m, representative) ==
    IF representative.type = "class"
    THEN Ok(representative.val)
    ELSE IF representative.type = "ring"
    THEN Ok(representative.val)
    ELSE LET coerced == RingCoerce(representative)
         IN  IF coerced.tag = "ok" THEN Ok(Mod(coerced.val, m)) ELSE coerced

\* Faulty variant: no third branch; what is neither of the class nor of the source
\* ring is rejected.
QR_init_uncoerced(m, representative) ==
    IF representative.type = "class"
    THEN Ok(representative.val)
    ELSE IF representative.type = "ring"
    THEN Ok(Mod(representative.val, m))
    ELSE Raise("TypeError")

\* QuotientRing.__init__: the remainder the new element stores, or the
\* error the source ring's constructor raised.
QR_init(m, representative) ==
    IF representative.type = "class"
    THEN Ok(representative.val)
    ELSE IF representative.type = "ring"
    THEN Ok(Mod(representative.val, m))
    ELSE LET coerced == RingCoerce(representative)
         IN  IF coerced.tag = "ok" THEN Ok(Mod(coerced.val, m)) ELSE coerced

\* self.__class__(x) for an element x of the source ring
QR_class(m, x) == QR_init(m, Value("ring", x)).val

\* QuotientRing.__bool__
QR_bool(rem) == rem # 0

\* QuotientRing.__eq__
QR_eq(m, rem, other_rem) == rem = other_rem

\* Faulty variant: the sum of the remainders, not wrapped into the class again.
QR_add_unwrapped(m, rem, other_rem) == rem + other_rem

\* QuotientRing.__add__
QR_add(m, rem, other_rem) == QR_class(m, rem + other_rem)

\* QuotientRing.__neg__
QR_neg(m, rem) == QR_class(m, 0 - rem)

\* QuotientRing.__mul__
QR_mul(m, rem, other_rem) == QR_class(m, rem * other_rem)

\* QuotientRing.zero, QuotientRing.one
QR_zero(m) == QR_class(m, Zero)
QR_one(m) == QR_class(m, One)

\* The loop of the extended Euclidean algorithm on (u, v), v >= 0, with
\* the Bezout coefficients of u and v carried along.
RECURSIVE eea_loop(_, _, _, _, _, _)
eea_loop(u, v, x0, x1, y0, y1) ==
    IF v = 0 THEN << x0, y0, u >>
    ELSE LET q == u \div v
             r == u % v
         IN  eea_loop(v, r, x1, x0 - q * x1, y1, y0 - q * y1)

\* extended_euclidean_algorithm(a, b) = (x, y, g) with a*x + b*y = g
extended_euclidean_algorithm(a, b) == eea_loop(a, b, 1, 0, 0, 1)

\* Faulty variant: the Bezout coefficient of the modulus is taken for the inverse.
QR_multiplicative_inverse_swapped(m, rem) ==
    IF ~ QR_bool(rem)
    THEN Raise("ZeroDivisionError")
    ELSE LET t == extended_euclidean_algorithm(rem, m)
             inverse == t[2]
             gcd == t[3]
         IN  IF gcd = One
             THEN Ok(QR_class(m, inverse))
             ELSE Raise("ZeroDivisionError")

\* Faulty variant: the gcd is not looked at.
QR_multiplicative_inverse_unchecked(m, rem) ==
    IF ~ QR_bool(rem)
    THEN Raise("ZeroDivisionError")
    ELSE LET t == extended_euclidean_algorithm(rem, m)
             inverse == t[1]
         IN  Ok(QR_class(m, inverse))

\* QuotientRing.multiplicative_inverse
QR_multiplicative_inverse(m, rem) ==
    IF ~ QR_bool(rem)
    THEN Raise("ZeroDivisionError")
    ELSE LET t == extended_euclidean_algorithm(rem, m)
             inverse == t[1]
             gcd == t[3]
         IN  IF gcd = One
             THEN Ok(QR_class(m, inverse))
             ELSE Raise("ZeroDivisionError")

\* QuotientRing.__truediv__: self * other.multiplicative_inverse()
QR_truediv(m, rem, other_rem) ==
    LET inv == QR_multiplicative_inverse(m, other_rem)
    IN  IF inv.tag = "ok" THEN Ok(QR_mul(m, rem, inv.val)) ELSE inv

\* QuotientRing.__rtruediv__: other * self.multiplicative_inverse()
QR_rtruediv(m, rem, other_rem) ==
    LET inv == QR_multiplicative_inverse(m, rem)
    IN  IF inv.tag = "ok" THEN Ok(QR_mul(m, other_rem, inv.val)) ELSE inv

\* The undecorated binary operator `name` on two elements of the class.
QR_binary(name, m, rem, other_rem) ==
    CASE name = "add"      -> Ok(QR_add(m, rem, other_rem))
      [] name = "mul"      -> Ok(QR_mul(m, rem, other_rem))
      [] name = "eq"       -> Ok(QR_eq(m, rem, other_rem))
      [] name = "truediv"  -> QR_truediv(m, rem, other_rem)
      [] name = "rtruediv" -> QR_rtruediv(m, rem, other_rem)

\* operand_casting: an operand of the class is used as it is; any other
\* is fed to the constructor, and the operator gives NotImplemented when
\* the constructor rejects it.
operand_casting(name, m, rem, operand) ==
    IF operand.type = "class"
    THEN QR_binary(name, m, rem, operand.val)
    ELSE LET cast == QR_init(m, operand)
         IN  IF cast.tag = "ok"
             THEN QR_binary(name, m, rem, cast.val)
             ELSE NotImplemented

\* ------------------------------------------------------------- state
VARIABLES
    ring,              \* << "PolynomialRing" >> or << "QuotientRing", modulus >>
    self,              \* << >> until built, then << the first operand >>
    other,             \* << >> until given, then << the second operand >>
    third,             \* << >> until given, then << the third operand >>
    op,                \* the call made last
    coefficient_list,  \* the list handed to ListPolynomial.__init__ last
    representative,    \* << >>, or << what self was constructed from >>
    result             \* what the last call returned or raised

vars == << ring, self, other, third, op, coefficient_list, representative, result >>

Rings == { << "PolynomialRing" >> } \cup { << "QuotientRing", m >> : m \in 1..MaxModulus }

IsPoly == ring[1] = "PolynomialRing"
IsQuot == ring[1] = "QuotientRing"

Reps == (0 - MaxRep)..MaxRep

\* What a caller can hand to the constructor or to an operator of Z/mZ.
Operands(m) ==
    { Value("class", r) : r \in 0..(m - 1) }
        \cup { Value(t, v) : t \in { "ring", "raw" }, v \in Reps }
        \cup { Value("foreign", 0) }

\* Coefficient lists of the documented examples: x^2 + 2x + 5 and its double.
ScenarioLists == { << 5, 2, 1 >>, << 10, 4, 2 >> }

\* What a caller can hand to PolynomialRing.__call__.
CallInputs == ListsOfLen(0, MaxLen) \cup ScenarioLists

\* The ring is chosen (the template instantiated); nothing is built yet.
Init ==
    /\ ring \in Rings
    /\ self = << >>
    /\ other = << >>
    /\ third = << >>
    /\ op = "start"
    /\ coefficient_list = << >>
    /\ representative = << >>
    /\ result = None

\* ------------------------------------------------ polynomial calls
\* P(c0, ..., cn): PolynomialRing.__call__ with a coefficient list of any
\* length, the empty one included; the polynomial becomes the next operand.
Call(cs) ==
    /\ IsPoly
    /\ other = << >>
    /\ op' = "call"
    /\ coefficient_list' = cs
    /\ result' = Ok(PolynomialRing_call(cs))
    /\ IF self = << >>
       THEN self' = << PolynomialRing_call(cs) >> /\ other' = other
       ELSE other' = << PolynomialRing_call(cs) >> /\ self' = self
    /\ UNCHANGED << ring, third, representative >>

\* self + other
Polynomial_add ==
    /\ IsPoly
    /\ self # << >> /\ other # << >>
    /\ op' = "add"
    /\ coefficient_list' = add_sums(self[1], other[1])
    /\ result' = Ok(poly_add(self[1], other[1]))
    /\ UNCHANGED << ring, self, other, third, representative >>

\* -self
Polynomial_neg ==
    /\ IsPoly
    /\ self # << >>
    /\ op' = "neg"
    /\ coefficient_list' = neg_list(self[1])
    /\ result' = Ok(poly_neg(self[1]))
    /\ UNCHANGED << ring, self, other, third, representative >>

\* self * other
Polynomial_mul ==
    /\ IsPoly
    /\ self # << >> /\ other # << >>
    /\ op' = "mul"
    /\ coefficient_list' = mul_result(self[1], other[1])
    /\ result' = Ok(poly_mul(self[1], other[1]))
    /\ UNCHANGED << ring, self, other, third, representative >>

\* --------------------------------------------- quotient ring calls
\* E(rep): QuotientRing.__init__; the element becomes self.
Construct(rep) ==
    /\ IsQuot
    /\ self = << >>
    /\ op' = "init"
    /\ result' = QR_init(ring[2], rep)
    /\ IF result'.tag = "ok"
       THEN self' = << result'.val >> /\ representative' = << rep >>
       ELSE UNCHANGED << self, representative >>
    /\ UNCHANGED << ring, other, third, coefficient_list >>

\* A decorated binary operator of self, applied to the operand v.
Binary(name, v) ==
    /\ IsQuot
    /\ self # << >>
    /\ op' = name
    /\ other' = << v >>
    /\ result' = operand_casting(name, ring[2], self[1], v)
    /\ UNCHANGED << ring, self, third, coefficient_list, representative >>

\* self + v
Quotient_add(v) == Binary("add", v)

\* self * v
Quotient_mul(v) == Binary("mul", v)

\* self == v
Quotient_eq(v) == Binary("eq", v)

\* self / v
Quotient_truediv(v) == Binary("truediv", v)

\* v / self
Quotient_rtruediv(v) == Binary("rtruediv", v)

\* -self
Quotient_neg ==
    /\ IsQuot
    /\ self # << >>
    /\ op' = "neg"
    /\ result' = Ok(QR_neg(ring[2], self[1]))
    /\ UNCHANGED << ring, self, other, third, coefficient_list, representative >>

\* self.multiplicative_inverse()
Quotient_multiplicative_inverse ==
    /\ IsQuot
    /\ self # << >>
    /\ op' = "multiplicative_inverse"
    /\ result' = QR_multiplicative_inverse(ring[2], self[1])
    /\ UNCHANGED << ring, self, other, third, coefficient_list, representative >>

Next ==
    \/ \E cs \in CallInputs : Call(cs)
    \/ Polynomial_add
    \/ Polynomial_neg
    \/ Polynomial_mul
    \/ IsQuot /\ \E rep \in Operands(ring[2]) : Construct(rep)
    \/ IsQuot /\ \E v \in Operands(ring[2]) : Quotient_add(v)
    \/ IsQuot /\ \E v \in Operands(ring[2]) : Quotient_mul(v)
    \/ IsQuot /\ \E v \in Operands(ring[2]) : Quotient_eq(v)
    \/ IsQuot /\ \E v \in Operands(ring[2]) : Quotient_truediv(v)
    \/ IsQuot /\ \E v \in Operands(ring[2]) : Quotient_rtruediv(v)
    \/ Quotient_neg
    \/ Quotient_multiplicative_inverse

Spec == Init /\ [][Next]_vars

\* --------------------------------------------------------- sessions
\* A session keeps one element, self, and replaces it by the result of
\* each operation; the second operand is built for the operation.  The
\* polynomials are built from non-empty lists, and an operation is only
\* made while its result fits the bounds of the model.
Abs(n) == IF n < 0 THEN 0 - n ELSE n

Fits(p) == Len(p) <= MaxLen /\ \A i \in 1..Len(p) : Abs(p[i]) <= MaxAbs

\* self = P(c0, ..., cn)
Session_call(cs) ==
    /\ IsPoly
    /\ op' = "call"
    /\ coefficient_list' = cs
    /\ self' = << PolynomialRing_call(cs) >>
    /\ UNCHANGED << ring, other, third, representative, result >>

\* self = self + P(c0, ..., cn)
Session_poly_add(cs) ==
    /\ IsPoly
    /\ self # << >>
    /\ Fits(poly_add(self[1], PolynomialRing_call(cs)))
    /\ op' = "add"
    /\ coefficient_list' = add_sums(self[1], PolynomialRing_call(cs))
    /\ self' = << poly_add(self[1], PolynomialRing_call(cs)) >>
    /\ UNCHANGED << ring, other, third, representative, result >>

\* self = -self
Session_poly_neg ==
    /\ IsPoly
    /\ self # << >>
    /\ op' = "neg"
    /\ coefficient_list' = neg_list(self[1])
    /\ self' = << poly_neg(self[1]) >>
    /\ UNCHANGED << ring, other, third, representative, result >>

\* self = self * P(c0, ..., cn)
Session_poly_mul(cs) ==
    /\ IsPoly
    /\ self # << >>
    /\ Fits(poly_mul(self[1], PolynomialRing_call(cs)))
    /\ op' = "mul"
    /\ coefficient_list' = mul_result(self[1], PolynomialRing_call(cs))
    /\ self' = << poly_mul(self[1], PolynomialRing_call(cs)) >>
    /\ UNCHANGED << ring, other, third, representative, result >>

\* What a caller holds to construct an element from: a source-ring element,
\* a value the source ring accepts, or the element self itself.
SessionReps ==
    { Value(t, v) : t \in { "ring", "raw" }, v \in Reps }
        \cup { Value("class", self[i]) : i \in 1..Len(self) }

\* self = E(rep)
Session_construct(rep) ==
    /\ IsQuot
    /\ op' = "init"
    /\ representative' = << rep >>
    /\ self' = << QR_init(ring[2], rep).val >>
    /\ UNCHANGED << ring, other, third, coefficient_list, result >>

\* self = self + E(rep)
Session_quot_add(rep) ==
    /\ IsQuot
    /\ self # << >>
    /\ op' = "add"
    /\ representative' = << Value("ring", self[1] + QR_init(ring[2], rep).val) >>
    /\ self' = << QR_add(ring[2], self[1], QR_init(ring[2], rep).val) >>
    /\ UNCHANGED << ring, other, third, coefficient_list, result >>

\* self = -self
Session_quot_neg ==
    /\ IsQuot
    /\ self # << >>
    /\ op' = "neg"
    /\ representative' = << Value("ring", 0 - self[1]) >>
    /\ self' = << QR_neg(ring[2], self[1]) >>
    /\ UNCHANGED << ring, other, third, coefficient_list, result >>

\* self = self * E(rep)
Session_quot_mul(rep) ==
    /\ IsQuot
    /\ self # << >>
    /\ op' = "mul"
    /\ representative' = << Value("ring", self[1] * QR_init(ring[2], rep).val) >>
    /\ self' = << QR_mul(ring[2], self[1], QR_init(ring[2], rep).val) >>
    /\ UNCHANGED << ring, other, third, coefficient_list, result >>

NextSession ==
    \/ \E cs \in ListsOfLen(1, MaxLen) : Session_call(cs)
    \/ \E cs \in ListsOfLen(1, MaxLen) : Session_poly_add(cs)
    \/ Session_poly_neg
    \/ \E cs \in ListsOfLen(1, MaxLen) : Session_poly_mul(cs)
    \/ IsQuot /\ \E rep \in SessionReps : Session_construct(rep)
    \/ IsQuot /\ \E rep \in SessionReps : Session_quot_add(rep)
    \/ Session_quot_neg
    \/ IsQuot /\ \E rep \in SessionReps : Session_quot_mul(rep)

SpecSession == Init /\ [][NextSession]_vars

\* ------------------------------------------------- three operands
\* The caller builds three elements of the ring, one after the other; the
\* polynomials from non-empty lists, the third from a list shorter than
\* MaxLen.
Operand_call(cs) ==
    /\ IsPoly
    /\ third = << >>
    /\ (self # << >> /\ other # << >>) => Len(cs) < MaxLen
    /\ op' = "call"
    /\ IF self = << >>
       THEN self' = << PolynomialRing_call(cs) >> /\ UNCHANGED << other, third >>
       ELSE IF other = << >>
       THEN other' = << PolynomialRing_call(cs) >> /\ UNCHANGED << self, third >>
       ELSE third' = << PolynomialRing_call(cs) >> /\ UNCHANGED << self, other >>
    /\ UNCHANGED << ring, coefficient_list, representative, result >>

Operand_construct(rep) ==
    /\ IsQuot
    /\ third = << >>
    /\ op' = "init"
    /\ IF self = << >>
       THEN self' = << QR_init(ring[2], rep).val >> /\ UNCHANGED << other, third >>
       ELSE IF other = << >>
       THEN other' = << QR_init(ring[2], rep).val >> /\ UNCHANGED << self, third >>
       ELSE third' = << QR_init(ring[2], rep).val >> /\ UNCHANGED << self, other >>
    /\ UNCHANGED << ring, coefficient_list, representative, result >>

NextOperands ==
    \/ \E cs \in ListsOfLen(1, MaxLen) : Operand_call(cs)
    \/ \E v \in Reps : Operand_construct(Value("ring", v))

SpecOperands == Init /\ [][NextOperands]_vars

\* ------------------------------------------------------------ claims
\* The call raised the error e and returned nothing.
Raised(r, e) == r.tag = "raise" /\ r.val = e

\* Two calls ended the same way: the same value returned, or the same
\* error raised.
SameOutcome(r1, r2) == r1.tag = r2.tag /\ r1.val = r2.val

\* A polynomial in the sense of the data model: at least one coefficient,
\* and no zero at the highest index unless it is the only coefficient.
IsNormalized(p) == Len(p) >= 1 /\ (p[Len(p)] # Zero \/ Len(p) = 1)

\* The sum of p[i] * q[k - i] over the i in from..k for which both exist
\* (0-based indices).
RECURSIVE ConvolutionSum(_, _, _, _)
ConvolutionSum(p, q, k, from) ==
    IF from > k THEN 0
    ELSE (IF from + 1 <= Len(p) /\ k - from + 1 <= Len(q)
          THEN p[from + 1] * q[k - from + 1] ELSE 0)
         + ConvolutionSum(p, q, k, from + 1)

\* The greatest common divisor of a >= 0 and b >= 1, from the definition.
GCD(a, b) ==
    LET common == { d \in 1..Max(a, b) : a % d = 0 /\ b % d = 0 }
    IN  CHOOSE d \in common : \A e \in common : e <= d

\* The residue class of remainder r has an inverse in Z/mZ.
HasInverse(m, r) == \E x \in 0..(m - 1) : (r * x) % m = 1 % m

\* The source-ring element a class was constructed from.
RepresentativeValue == representative[1].val

\* The operators the operand casting is claimed for.
CastOps == { "add", "mul", "eq", "truediv" }

\* The operations of the ring the three operands belong to.
RingEq(a, b) == IF IsPoly THEN poly_eq(a, b) ELSE QR_eq(ring[2], a, b)
RingAdd(a, b) == IF IsPoly THEN poly_add(a, b) ELSE QR_add(ring[2], a, b)
RingMul(a, b) == IF IsPoly THEN poly_mul(a, b) ELSE QR_mul(ring[2], a, b)
RingNeg(a) == IF IsPoly THEN poly_neg(a) ELSE QR_neg(ring[2], a)
RingZero == IF IsPoly THEN PolynomialRing_call(<< 0 >>) ELSE QR_zero(ring[2])
RingOne == IF IsPoly THEN PolynomialRing_call(<< 1 >>) ELSE QR_one(ring[2])

\* C1: every polynomial reached from non-empty coefficient lists by add,
\* neg and mul has at least one coefficient, and its highest coefficient
\* is not zero unless it is the only one.
C1_PolynomialsAreNormalized ==
    (IsPoly /\ self # << >>) => IsNormalized(self[1])

\* A sum whose two highest coefficients cancelled has been stored.
C1_Witness ==
    /\ IsPoly /\ op = "add" /\ Len(coefficient_list) = 3
    /\ Len(self[1]) = 1 /\ coefficient_list[1] # 0

\* C2: the remainder every reached residue class stores is reduced: it is
\* its own remainder modulo the modulus.
C2_RemaindersAreReduced ==
    (IsQuot /\ self # << >>) => self[1] = Mod(self[1], ring[2])

\* A product that had to be reduced has been stored.
C2_Witness ==
    /\ IsQuot /\ op = "mul" /\ representative[1].val >= ring[2]
    /\ ring[2] = 4 /\ self = << 0 >>

\* C3 as stated: whenever the gcd of the remainder of u and the modulus is
\* a unit of the integers, u.multiplicative_inverse() succeeds and
\* u * u.multiplicative_inverse() == one.
C3_UnitsAreInverted ==
    (IsQuot /\ op = "multiplicative_inverse" /\ GCD(self[1], ring[2]) = 1) =>
        /\ result.tag = "ok"
        /\ QR_eq(ring[2], QR_mul(ring[2], self[1], result.val), QR_one(ring[2]))

\* C3 amended: the same for every u whose remainder is not zero.
C3_NonZeroUnitsAreInverted ==
    (IsQuot /\ op = "multiplicative_inverse" /\ self[1] # 0
            /\ GCD(self[1], ring[2]) = 1) =>
        /\ result.tag = "ok"
        /\ QR_eq(ring[2], QR_mul(ring[2], self[1], result.val), QR_one(ring[2]))

\* In Z/5Z the inverse of [3] has been computed and is [2].
C3_Witness ==
    /\ ring = << "QuotientRing", 5 >> /\ op = "multiplicative_inverse"
    /\ self = << 3 >> /\ result = Ok(2)

\* C4: multiplicative_inverse() raises when the remainder is zero and when
\* it is not coprime to the modulus; self / other raises the same error
\* when other (as cast into the class) has no inverse, and other / self
\* when self has none; nothing is returned then.
C4_NonUnitsRaise ==
    /\ (IsQuot /\ op = "multiplicative_inverse"
            /\ (self[1] = 0 \/ GCD(self[1], ring[2]) # 1))
          => Raised(result, "ZeroDivisionError")
    /\ (IsQuot /\ op = "truediv" /\ QR_init(ring[2], other[1]).tag = "ok"
            /\ ~ HasInverse(ring[2], QR_init(ring[2], other[1]).val))
          => Raised(result, "ZeroDivisionError")
    /\ (IsQuot /\ op = "rtruediv" /\ QR_init(ring[2], other[1]).tag = "ok"
            /\ ~ HasInverse(ring[2], self[1]))
          => Raised(result, "ZeroDivisionError")

\* In Z/4Z the inverse of [2] has been asked for.
C4_Witness ==
    /\ ring = << "QuotientRing", 4 >> /\ op = "multiplicative_inverse"
    /\ self = << 2 >> /\ result.tag = "raise"

\* C5: calling the polynomial-ring constructor with an empty coefficient
\* list fails with InvalidArityError and yields no polynomial.
C5_EmptyListRejected ==
    (IsPoly /\ op = "call" /\ coefficient_list = << >>)
        => Raised(result, "InvalidArityError")

\* C6: for source-ring elements x and y, [x] + [y] == [x + y] and
\* [x] * [y] == [x * y]: self is [x], and the law is checked for every y
\* whose class [y] is the operand.
C6_Homomorphism ==
    (IsQuot /\ op \in { "add", "mul" } /\ representative[1].type = "ring"
            /\ other[1].type = "class") =>
        \A y \in Reps :
            QR_class(ring[2], y) = other[1].val =>
                /\ result.tag = "ok"
                /\ op = "add" =>
                     QR_eq(ring[2], result.val,
                           QR_class(ring[2], RepresentativeValue + y))
                /\ op = "mul" =>
                     QR_eq(ring[2], result.val,
                           QR_class(ring[2], RepresentativeValue * y))

\* In Z/4Z, [1] + [3] has been computed and is [0].
C6_Witness ==
    /\ ring = << "QuotientRing", 4 >> /\ op = "add"
    /\ representative = << Value("ring", 1) >>
    /\ other = << Value("class", 3) >> /\ result = Ok(0)

\* C7: p * q is the convolution of the coefficients of two polynomials p
\* and q (each built from a non-empty list): the list handed to the
\* constructor has deg(p) + deg(q) + 2 slots, slot k holds the sum of
\* p[i] * q[j] over i + j = k, and the product is that list normalized.
C7_MulIsConvolution ==
    (IsPoly /\ op = "mul" /\ Len(self[1]) >= 1 /\ Len(other[1]) >= 1) =>
        /\ Len(coefficient_list) = degree(self[1]) + degree(other[1]) + 2
        /\ \A k \in 0..(Len(coefficient_list) - 1) :
              coefficient_list[k + 1] = ConvolutionSum(self[1], other[1], k, 0)
        /\ result.tag = "ok"
        /\ IsNormalized(result.val)
        /\ Len(result.val) <= Len(coefficient_list)
        /\ \A k \in 1..Len(coefficient_list) :
              coefficient_list[k] = (IF k <= Len(result.val) THEN result.val[k] ELSE Zero)

\* (x^2 + 2x + 5)^2 = x^4 + 4x^3 + 14x^2 + 20x + 25 has been computed.
C7_Witness ==
    /\ IsPoly /\ op = "mul"
    /\ self = << << 5, 2, 1 >> >> /\ other = << << 5, 2, 1 >> >>
    /\ result = Ok(<< 25, 20, 14, 4, 1 >>)

C10_RingAxioms ==
    (self # << >> /\ other # << >> /\ third # << >>) =>
        LET a == self[1]
            b == other[1]
            c == third[1]
        IN  /\ RingEq(RingAdd(a, b), RingAdd(b, a))
            /\ RingEq(RingAdd(RingAdd(a, b), c), RingAdd(a, RingAdd(b, c)))
            /\ RingEq(RingMul(RingMul(a, b), c), RingMul(a, RingMul(b, c)))
            /\ RingEq(RingAdd(a, RingZero), a)
            /\ RingEq(RingAdd(a, RingNeg(a)), RingZero)
            /\ RingEq(RingMul(a, RingOne), a)
            /\ RingEq(RingMul(a, RingAdd(b, c)),
                      RingAdd(RingMul(a, b), RingMul(a, c)))

\* Three polynomials of degree 1 have been built.
C10_Witness ==
    /\ IsPoly /\ self # << >> /\ other # << >> /\ third # << >>
    /\ Len(self[1]) = 3 /\ Len(other[1]) = 2 /\ Len(third[1]) = 2
    /\ other[1] # third[1]

=============================================================================
